---------------------------- MODULE Spec2Model ----------------------------
(***************************************************************************)
(* A model of the stardog-sdk-go client (package stardog): request         *)
(* building with basic authentication, the transport invoker BareDo, the   *)
(* response decoder Do, Users.List, the Link-header pagination parser and  *)
(* the URL sanitizer.                                                      *)
(*                                                                         *)
(* Specifications:                                                         *)
(*   SpecAuth  one caller: SetBasicAuth and NewRequest in any order        *)
(*   Spec      one caller: BareDo, Do and Users.List, step by step, with   *)
(*             the call context cancelled at any moment                    *)
(*   SpecPage  populatePageValues, one Link entry per step                 *)
(*   SpecRace  goroutines running NewRequest and SetBasicAuth concurrently *)
(***************************************************************************)
EXTENDS Integers, Sequences, FiniteSets, TLC

VARIABLES
    BasicAuth,      \* Client.BasicAuth: the credential pair, or the nil pointer
    BaseURL,        \* Client.BaseURL
    UserAgent,      \* Client.UserAgent
    lastSet,        \* history: the arguments of the latest SetBasicAuth call
    reqs,           \* the requests NewRequest has returned, oldest first
    built,          \* history: for each of reqs, lastSet and the options at its build
    pg,             \* the pagination fields of the Response being populated
    pgPrev,         \* history: pg before the latest Link entry was processed
    pgEntry,        \* history: the latest Link entry processed
    pgN,            \* Link entries processed so far
    pgStyles,       \* history: the pagination styles of the entries processed
    pgState,        \* "parsing" | "done": where populatePageValues is
    pc,             \* where the caller's Do, BareDo or Users.List call is
    kind,           \* which of the three the call is
    ctx,            \* the call's context: "nil", "live", "canceled" or "deadline"
    ctxAtCall,      \* history: ctx when the call was made
    dest,           \* Do's destination: "nil", "writer" or "typed"
    terr,           \* the error c.client.Do returned ("none": none so far)
    bodyKind,       \* what the response body holds
    resp,           \* the call's *Response result
    err,            \* the call's error result
    transportCalls, \* c.client.Do invocations of the call
    closes,         \* resp.Body.Close invocations of the call
    gpc,            \* where each goroutine running NewRequest is
    guser,          \* each such goroutine's username argument, once read
    greq,           \* the request each such goroutine is building
    gstart,         \* history: BasicAuth when the goroutine's call began
    gdirty,         \* history: a SetBasicAuth store happened during the call
    spc,            \* where the goroutine running SetBasicAuth is
    sarg,           \* the BasicAuth value that goroutine has built
    everSet,        \* history: the pairs SetBasicAuth was called with
    nsets           \* SetBasicAuth calls so far

authVars == <<BasicAuth, BaseURL, UserAgent, lastSet, reqs, built>>
pageVars == <<pg, pgPrev, pgEntry, pgN, pgStyles, pgState>>

callVars == <<pc, kind, ctx, ctxAtCall, dest, terr, bodyKind, resp, err, transportCalls, closes>>

raceVars == <<gpc, guser, greq, gstart, gdirty, spc, sarg, everSet, nsets>>

vars == <<authVars, pageVars, callVars, raceVars>>

-----------------------------------------------------------------------------
(* Bounds of the model.                                                    *)

MaxReqs == 1        \* requests kept in reqs
MaxOpts == 1        \* request options passed to one NewRequest call
MaxLinks == 2       \* entries of one Link header
MaxQuery == 3       \* query parameters of the URL a transport error carries
MaxSets == 2        \* SetBasicAuth calls made while requests are being built

-----------------------------------------------------------------------------
(* Values.                                                                 *)

Users == {"u1", "u2"}
Pwds  == {"p1", "p2"}

mediaTypeV3 == "application/json"

\* url.URL, as far as the client reads it: the part before the path, and the
\* path as a sequence of "/" and segment tokens.
defaultBaseURL == [host |-> "http://localhost:5820", path |-> <<"/">>]

BaseURLs ==
    { [host |-> "", path |-> <<>>],                       \* "": use the default
      [host |-> "http://h:5820", path |-> <<"/">>],
      [host |-> "http://h:5820", path |-> <<>>],
      [host |-> "http://h:5820", path |-> <<"/", "db">>],
      [host |-> "http://h:5820", path |-> <<"/", "db", "/">>] }

UserAgents == {"", "stardog-sdk-go"}

\* The nil *BasicAuth.
NilAuth == [set |-> FALSE, username |-> "", password |-> ""]

HeaderNames == {"Content-Type", "Accept", "User-Agent", "Authorization"}

\* http.Header: each name's values in order; no values: the name is absent.
EmptyHeader == [h \in HeaderNames |-> <<>>]

HeaderSet(hd, name, v) == [hd EXCEPT ![name] = <<v>>]
HeaderAdd(hd, name, v) == [hd EXCEPT ![name] = Append(@, v)]

\* strings.HasSuffix over a token sequence.
HasSuffix(s, tok) == Len(s) > 0 /\ s[Len(s)] = tok

\* The base64 of encoding/base64, kept symbolic: injective in its argument.
Base64(s) == "b64(" \o s \o ")"

\* net/http's basicAuth and Request.SetBasicAuth: one Authorization header.
BasicAuthValue(username, password) == "Basic " \o Base64(username \o ":" \o password)

ReqSetBasicAuth(req, username, password) ==
    [req EXCEPT !.header = HeaderSet(@, "Authorization", BasicAuthValue(username, password))]

\* RequestOption values a caller may pass: functions that mutate the request.
Options == {"setAccept", "setAuthorization", "addAuthorization"}

ApplyOption(opt, req) ==
    CASE opt = "setAccept"        -> [req EXCEPT !.header = HeaderSet(@, "Accept", "text/plain")]
      [] opt = "setAuthorization" -> [req EXCEPT !.header = HeaderSet(@, "Authorization", "Bearer t")]
      [] opt = "addAuthorization" -> [req EXCEPT !.header = HeaderAdd(@, "Authorization", "Bearer t")]

RECURSIVE ApplyOpts(_, _)
ApplyOpts(opts, req) ==
    IF opts = <<>> THEN req
    ELSE ApplyOpts(Tail(opts), ApplyOption(Head(opts), req))

OptSeqs == UNION { [1..n -> Options] : n \in 0..MaxOpts }

TouchesAuthorization(opts) ==
    \E i \in 1..Len(opts) :
        opts[i] \in {"setAuthorization", "addAuthorization"}

\* Inputs of NewRequest.
Methods == {"GET", "BAD METHOD"}
Refs    == {<<"admin", "/", "users">>, <<"%zz">>}     \* the second does not parse
Bodies  == {"nil", "value", "unencodable"}

\* url.URL.ResolveReference for a relative path: the base path up to its last
\* "/", then the reference.
RECURSIVE DirOf(_)
DirOf(path) ==
    IF path = <<>> THEN <<"/">>
    ELSE IF HasSuffix(path, "/") THEN path
    ELSE DirOf(SubSeq(path, 1, Len(path) - 1))

ResolveReference(base, ref) == [host |-> base.host, path |-> DirOf(base.path) \o ref]

NilReq == [method |-> "", url |-> [host |-> "", path |-> <<>>],
           header |-> EmptyHeader, body |-> "nil"]

\* NewClient: the default base URL for "", the client's other fields zero.
NewClient(baseURL) ==
    [BaseURL   |-> IF baseURL.host = "" THEN defaultBaseURL ELSE baseURL,
     UserAgent |-> "",
     BasicAuth |-> NilAuth]

\* Client.NewRequest on a client with fields base, ua, auth: the result pair
\* (req, err), err = "" for nil.
NewRequest(base, ua, auth, method, urlStr, body, opts) ==
    IF ~HasSuffix(base.path, "/")
    THEN [req |-> NilReq, err |-> "BaseURL must have a trailing slash"]
    ELSE IF urlStr = <<"%zz">>
    THEN [req |-> NilReq, err |-> "invalid URL escape"]
    ELSE IF body = "unencodable"
    THEN [req |-> NilReq, err |-> "json: unsupported type"]
    ELSE IF method # "GET"
    THEN [req |-> NilReq, err |-> "net/http: invalid method"]
    ELSE
      LET r0 == [method |-> method, url |-> ResolveReference(base, urlStr),
                 header |-> EmptyHeader, body |-> body]
          r1 == IF body # "nil"
                THEN [r0 EXCEPT !.header = HeaderSet(@, "Content-Type", "application/json")]
                ELSE r0
          r2 == [r1 EXCEPT !.header = HeaderSet(@, "Accept", mediaTypeV3)]
          r3 == IF ua # ""
                THEN [r2 EXCEPT !.header = HeaderSet(@, "User-Agent", ua)]
                ELSE r2
          r4 == IF auth.set
                THEN ReqSetBasicAuth(r3, auth.username, auth.password)
                ELSE r3
      IN [req |-> ApplyOpts(opts, r4), err |-> ""]

\* A SetBasicAuth that keeps a pair already set.
SetBasicAuthOnce(auth, username, password) ==
    IF auth.set THEN auth
    ELSE [set |-> TRUE, username |-> username, password |-> password]

\* Client.SetBasicAuth: a fresh BasicAuth value, and the field pointed at it.
SetBasicAuth(auth, username, password) ==
    [set |-> TRUE, username |-> username, password |-> password]


-----------------------------------------------------------------------------
(* The pagination parser: Response.populatePageValues.                     *)

\* The largest int. Go's int is 32 or 64 bits wide, by platform; the model
\* takes the 32-bit width, which TLC's integers can hold. What matters is
\* that a digit string can exceed it.
MaxInt == 2147483647

Digits == {"0", "1", "2", "3", "4", "5", "6", "7", "8", "9"}

DigitVal(c) ==
    CASE c = "0" -> 0 [] c = "1" -> 1 [] c = "2" -> 2 [] c = "3" -> 3 [] c = "4" -> 4
      [] c = "5" -> 5 [] c = "6" -> 6 [] c = "7" -> 7 [] c = "8" -> 8 [] c = "9" -> 9

\* The digits of s folded into acc, most significant first; the magnitude is
\* cut off where the next digit would pass MaxInt (MaxInt + 1 when negative).
RECURSIVE ParseDigits(_, _, _)
ParseDigits(s, acc, neg) ==
    IF s = <<>> THEN [n |-> acc, err |-> ""]
    ELSE IF Head(s) \notin Digits THEN [n |-> 0, err |-> "syntax"]
    ELSE LET d == DigitVal(Head(s))
             q == MaxInt \div 10
             last == IF neg THEN (MaxInt % 10) + 1 ELSE MaxInt % 10
         IN IF neg
            THEN IF acc < -q \/ (acc = -q /\ d > last)
                 THEN [n |-> -MaxInt - 1, err |-> "range"]
                 ELSE ParseDigits(Tail(s), acc * 10 - d, neg)
            ELSE IF acc > q \/ (acc = q /\ d > last)
                 THEN [n |-> MaxInt, err |-> "range"]
                 ELSE ParseDigits(Tail(s), acc * 10 + d, neg)

\* A range error is reported only after the whole string is seen to be digits.
AllDigits(s) == \A i \in 1..Len(s) : s[i] \in Digits

\* strconv.Atoi over a character sequence: (0, syntax error) for a string that
\* is no decimal integer, (the nearest bound, range error) for one that does
\* not fit an int, (the value, nil) otherwise.
Atoi(s) ==
    IF s = <<>> THEN [n |-> 0, err |-> "syntax"]
    ELSE LET neg  == Head(s) = "-"
             body == IF Head(s) \in {"+", "-"} THEN Tail(s) ELSE s
         IN IF body = <<>> \/ ~AllDigits(body)
            THEN [n |-> 0, err |-> "syntax"]
            ELSE ParseDigits(body, 0, neg)

\* The pagination fields of Response, at their zero values.
ZeroPage ==
    [NextPage |-> 0, PrevPage |-> 0, FirstPage |-> 0, LastPage |-> 0,
     NextPageToken |-> <<>>, Cursor |-> "", Before |-> "", After |-> ""]

\* A digit string too long for an int.
Huge == [i \in 1..10 |-> "9"]

\* What url.Values.Get returns for the five parameters the parser reads
\* ("" or <<>>: the parameter is absent or empty). page and since are
\* character sequences, for Atoi.
CursorVals == {"", "c1"}
PageVals   == {<<>>, <<"2">>, <<"x">>, Huge}
SinceVals  == {<<>>, <<"y">>}
BeforeVals == {"", "b1"}
AfterVals  == {"", "a1"}

\* The queries the model feeds the parser: every combination, but for those
\* carrying both before and after.
Queries5 ==
    { q \in [cursor : CursorVals, page : PageVals, since : SinceVals,
             before : BeforeVals, after : AfterVals] :
        q.before = "" \/ q.after = "" }

NoQuery == [cursor |-> "", page |-> <<>>, since |-> <<>>, before |-> "", after |-> ""]

\* The segments after the href, each after strings.TrimSpace: "next" stands
\* for rel="next", and so on; "other" for any segment the switch ignores.
RelLists ==
    { <<>>, <<"next">>, <<"prev">>, <<"first">>, <<"last">>, <<"other">>,
      <<"prev", "next">> }

\* One comma-separated entry of the Link header: how its href reads
\* ("ok", "nohref": not wrapped in <>, "badurl": url.Parse fails), the
\* href's query and the segments after the href.
LinkEntries ==
    { [form |-> "ok", q |-> q, rels |-> rels] : q \in Queries5, rels \in RelLists }
    \cup { [form |-> f, q |-> NoQuery, rels |-> <<"next">>] : f \in {"nohref", "badurl"} }

\* The cursor-style step, lines 248-257: the loop over the segments.
RECURSIVE CursorRels(_, _, _)
CursorRels(r, cursor, rels) ==
    IF rels = <<>> THEN r
    ELSE CursorRels(IF Head(rels) = "next" THEN [r EXCEPT !.Cursor = cursor] ELSE r,
                    cursor, Tail(rels))

\* An offset-style switch whose next case drops the token, as the prev case
\* drops the parse error.
OffsetRelNoToken(r, rel, page, before, after) ==
    CASE rel = "next"  -> [r EXCEPT !.NextPage = Atoi(page).n, !.After = after]
      [] rel = "prev"  -> [r EXCEPT !.PrevPage = Atoi(page).n, !.Before = before]
      [] rel = "first" -> [r EXCEPT !.FirstPage = Atoi(page).n]
      [] rel = "last"  -> [r EXCEPT !.LastPage = Atoi(page).n]
      [] OTHER -> r

\* The offset-style switch, lines 272-287, for one segment.
OffsetRel(r, rel, page, before, after) ==
    CASE rel = "next" ->
            LET a == Atoi(page)
                r1 == [r EXCEPT !.NextPage = a.n]
                r2 == IF a.err # "" THEN [r1 EXCEPT !.NextPageToken = page] ELSE r1
            IN [r2 EXCEPT !.After = after]
      [] rel = "prev"  -> [r EXCEPT !.PrevPage = Atoi(page).n, !.Before = before]
      [] rel = "first" -> [r EXCEPT !.FirstPage = Atoi(page).n]
      [] rel = "last"  -> [r EXCEPT !.LastPage = Atoi(page).n]
      [] OTHER -> r

RECURSIVE OffsetRels(_, _, _, _, _)
OffsetRels(r, rels, page, before, after) ==
    IF rels = <<>> THEN r
    ELSE OffsetRels(OffsetRel(r, Head(rels), page, before, after),
                    Tail(rels), page, before, after)

\* A loop body that sends a cursor entry to the cursor-style step only when
\* its relation is next.
ProcessEntryNextOnly(r, e) ==
    IF Len(e.rels) + 1 < 2 \/ e.form # "ok" THEN r
    ELSE IF e.q.cursor # "" /\ \E i \in 1..Len(e.rels) : e.rels[i] = "next"
    THEN CursorRels(r, e.q.cursor, e.rels)
    ELSE IF e.q.page = <<>> /\ e.q.before = "" /\ e.q.after = "" /\ e.q.since = <<>>
    THEN r
    ELSE LET page == IF e.q.since # <<>> /\ e.q.page = <<>> THEN e.q.since ELSE e.q.page
         IN OffsetRels(r, e.rels, page, e.q.before, e.q.after)

\* A loop body whose cursor-style step falls through to the offset-style step.
ProcessEntryFallThrough(r, e) ==
    IF Len(e.rels) + 1 < 2 \/ e.form # "ok" THEN r
    ELSE LET r1 == IF e.q.cursor # "" THEN CursorRels(r, e.q.cursor, e.rels) ELSE r
         IN IF e.q.page = <<>> /\ e.q.before = "" /\ e.q.after = "" /\ e.q.since = <<>>
            THEN r1
            ELSE LET page == IF e.q.since # <<>> /\ e.q.page = <<>> THEN e.q.since ELSE e.q.page
                 IN OffsetRels(r1, e.rels, page, e.q.before, e.q.after)

\* The body of the loop over the Link entries, lines 228-287.
ProcessEntry(r, e) ==
    IF Len(e.rels) + 1 < 2 THEN r                   \* fewer than two segments
    ELSE IF e.form # "ok" THEN r                    \* href not in <>, or not a URL
    ELSE IF e.q.cursor # "" THEN CursorRels(r, e.q.cursor, e.rels)
    ELSE IF e.q.page = <<>> /\ e.q.before = "" /\ e.q.after = "" /\ e.q.since = <<>>
    THEN r
    ELSE LET page == IF e.q.since # <<>> /\ e.q.page = <<>> THEN e.q.since ELSE e.q.page
         IN OffsetRels(r, e.rels, page, e.q.before, e.q.after)

\* populatePageValues over a whole Link header (a sequence of entries; <<>>:
\* no Link header, or an empty one).
RECURSIVE PopulatePageValues(_, _)
PopulatePageValues(r, links) ==
    IF links = <<>> THEN r
    ELSE PopulatePageValues(ProcessEntry(r, Head(links)), Tail(links))

\* No response is being populated.
PageIdle ==
    /\ pg = ZeroPage
    /\ pgPrev = ZeroPage
    /\ pgEntry = [form |-> "nohref", q |-> NoQuery, rels |-> <<"next">>]
    /\ pgN = 0
    /\ pgStyles = {}
    /\ pgState = "parsing"


-----------------------------------------------------------------------------
(* The URL sanitizer: sanitizeURL, and the url.Values it works on.         *)

QKeys == {"a", "client_secret", "z"}
KeyOrder == <<"a", "client_secret", "z">>      \* QKeys as sort.Strings orders them
QVals == {"", "s1"}

\* A raw query: its name=value pairs in the order they are written.
RawQueries == UNION { [1..n -> [k : QKeys, v : QVals]] : n \in 0..MaxQuery }

\* The values a raw query gives key k, in order.
RECURSIVE ValuesFor(_, _)
ValuesFor(raw, k) ==
    IF raw = <<>> THEN <<>>
    ELSE IF Head(raw).k = k THEN <<Head(raw).v>> \o ValuesFor(Tail(raw), k)
    ELSE ValuesFor(Tail(raw), k)

\* url.URL.Query: the url.Values map of a raw query.
Query(raw) == [k \in QKeys |-> ValuesFor(raw, k)]

\* url.Values.Get: the first value of the key, "" when it has none.
Get(vals, k) == IF vals[k] = <<>> THEN "" ELSE vals[k][1]

\* url.Values.Set: the key's values replaced by the one value.
Set(vals, k, val) == [vals EXCEPT ![k] = <<val>>]

\* url.Values.Encode: the pairs, sorted by key.
RECURSIVE EncodeFrom(_, _)
EncodeFrom(vals, i) ==
    IF i > Len(KeyOrder) THEN <<>>
    ELSE [j \in 1..Len(vals[KeyOrder[i]]) |-> [k |-> KeyOrder[i], v |-> vals[KeyOrder[i]][j]]]
         \o EncodeFrom(vals, i + 1)

Encode(vals) == EncodeFrom(vals, 1)

\* A *url.URL: nil, or the URL up to its query and its raw query.
NilURL == [isNil |-> TRUE, rest |-> "", query |-> <<>>]

\* sanitizeURL, lines 201-211.
sanitizeURL(uri) ==
    IF uri.isNil THEN NilURL
    ELSE LET params == Query(uri.query)
         IN IF Get(params, "client_secret") # ""
            THEN [uri EXCEPT !.query = Encode(Set(params, "client_secret", "REDACTED"))]
            ELSE uri

-----------------------------------------------------------------------------
(* The transport invoker and the response decoder: BareDo, Do, Users.List. *)

\* An error value: its kind and, for a *url.Error, whether its URL string
\* parses and the URL it parses to.
ErrOf(k) == [kind |-> k, parses |-> FALSE, url |-> NilURL]

NilErr == ErrOf("nil")
errNonNilContext == ErrOf("context must be non-nil")

\* What c.client.Do may fail with: a *url.Error whose URL parses, one whose
\* URL does not, or an error of another type.
TransportErrs ==
    { [kind |-> "url.Error", parses |-> TRUE,
       url |-> [isNil |-> FALSE, rest |-> "http://h:5820/admin/users", query |-> q]] :
          q \in RawQueries }
    \cup { ErrOf("url.Error"), ErrOf("transport") }

\* context.Context.Err.
CtxErr(c) ==
    CASE c = "canceled" -> ErrOf("context canceled")
      [] c = "deadline" -> ErrOf("context deadline exceeded")
      [] OTHER -> NilErr

CtxDone(c) == c \in {"canceled", "deadline"}

\* A *Response: nil, or the wrapper with its pagination fields.
NilResp == [isNil |-> TRUE, page |-> ZeroPage]

\* newResponse, lines 217-221, for a response with the given Link header.
newResponse(links) == [isNil |-> FALSE, page |-> PopulatePageValues(ZeroPage, links)]

\* The Link headers a server answers with in Spec.
LinkHeaders ==
    { <<>>,
      << [form |-> "ok", rels |-> <<"next">>,
          q |-> [cursor |-> "", page |-> <<"2">>, since |-> <<>>, before |-> "", after |-> ""]] >>,
      << [form |-> "ok", rels |-> <<"next">>,
          q |-> [cursor |-> "c1", page |-> <<>>, since |-> <<>>, before |-> "", after |-> ""]] >> }

BodyKinds == {"empty", "json", "garbage", "broken"}  \* broken: reading it fails
Contexts  == {"nil", "live", "canceled", "deadline"}
Dests     == {"nil", "writer", "typed"}

\* No call is in progress.
CallIdle ==
    /\ pc = "idle"
    /\ kind = "none"
    /\ ctx = "nil"
    /\ ctxAtCall = "nil"
    /\ dest = "nil"
    /\ terr = ErrOf("none")
    /\ bodyKind = "empty"
    /\ resp = NilResp
    /\ err = NilErr
    /\ transportCalls = 0
    /\ closes = 0

\* BareDo, lines 293-299: the nil check, then the one call of c.client.Do.
BareDoEnter(c) ==
    /\ ctx' = c
    /\ ctxAtCall' = c
    /\ IF c = "nil"
       THEN /\ pc' = "returned"
            /\ resp' = NilResp
            /\ err' = errNonNilContext
            /\ UNCHANGED transportCalls
       ELSE /\ pc' = "roundtrip"
            /\ transportCalls' = transportCalls + 1
            /\ UNCHANGED <<resp, err>>
    /\ UNCHANGED <<terr, bodyKind, closes>>

\* A caller calls BareDo.
BareDoCall(c) ==
    /\ pc = "idle"
    /\ kind' = "BareDo"
    /\ dest' = "nil"
    /\ BareDoEnter(c)
    /\ UNCHANGED <<authVars, pageVars, raceVars>>

\* A caller calls Do, line 326.
DoCall(c, d) ==
    /\ pc = "idle"
    /\ kind' = "Do"
    /\ dest' = d
    /\ BareDoEnter(c)
    /\ UNCHANGED <<authVars, pageVars, raceVars>>

\* A caller calls Users.List, users.go lines 18-32: NewRequest, then Do with
\* a typed destination.
ListCall(c) ==
    /\ pc = "idle"
    /\ kind' = "List"
    /\ dest' = "typed"
    /\ LET res == NewRequest(BaseURL, UserAgent, BasicAuth, "GET",
                             <<"admin", "/", "users">>, "nil", <<>>)
       IN IF res.err # ""
          THEN /\ pc' = "returned"
               /\ resp' = NilResp
               /\ err' = ErrOf(res.err)
               /\ ctx' = c
               /\ ctxAtCall' = c
               /\ UNCHANGED <<terr, bodyKind, transportCalls, closes>>
          ELSE BareDoEnter(c)
    /\ UNCHANGED <<authVars, pageVars, raceVars>>

\* The context is cancelled, or its deadline passes, while the call runs.
Cancel(how) ==
    /\ pc \in {"roundtrip", "failed", "decode"}
    /\ ctx = "live"
    /\ ctx' = how
    /\ UNCHANGED <<pc, kind, ctxAtCall, dest, terr, bodyKind, resp, err, transportCalls, closes>>
    /\ UNCHANGED <<authVars, pageVars, raceVars>>

\* A transport that is called again when it fails.
TransportFailRetry(e) ==
    /\ pc = "roundtrip"
    /\ terr' = e
    /\ pc' = "failed"
    /\ transportCalls' = transportCalls + 1
    /\ UNCHANGED <<kind, ctx, ctxAtCall, dest, bodyKind, resp, err, closes>>
    /\ UNCHANGED <<authVars, pageVars, raceVars>>

\* c.client.Do returns an error, line 299.
TransportFail(e) ==
    /\ pc = "roundtrip"
    /\ terr' = e
    /\ pc' = "failed"
    /\ UNCHANGED <<kind, ctx, ctxAtCall, dest, bodyKind, resp, err, transportCalls, closes>>
    /\ UNCHANGED <<authVars, pageVars, raceVars>>

\* c.client.Do returns a response, lines 299 and 320-322: BareDo wraps it and
\* returns; Do goes on to the decode step.
TransportOk(links, body) ==
    /\ pc = "roundtrip"
    /\ resp' = newResponse(links)
    /\ bodyKind' = body
    /\ err' = NilErr
    /\ pc' = IF kind = "BareDo" THEN "returned" ELSE "decode"
    /\ UNCHANGED <<kind, ctx, ctxAtCall, dest, terr, transportCalls, closes>>
    /\ UNCHANGED <<authVars, pageVars, raceVars>>

\* An error path that never looks at the context.
BareDoFailedNoCtx ==
    /\ pc = "failed"
    /\ pc' = "returned"
    /\ resp' = NilResp
    /\ err' = IF terr.kind = "url.Error" /\ terr.parses
              THEN [terr EXCEPT !.url = sanitizeURL(terr.url)]
              ELSE terr
    /\ UNCHANGED <<kind, ctx, ctxAtCall, dest, terr, bodyKind, transportCalls, closes>>
    /\ UNCHANGED <<authVars, pageVars, raceVars>>

\* BareDo's error path, lines 300-318; Do and Users.List hand its result on
\* (stardog.go lines 327-329, users.go lines 33-35).
BareDoFailed ==
    /\ pc = "failed"
    /\ pc' = "returned"
    /\ resp' = NilResp
    /\ err' = IF CtxDone(ctx) THEN CtxErr(ctx)
              ELSE IF terr.kind = "url.Error" /\ terr.parses
              THEN [terr EXCEPT !.url = sanitizeURL(terr.url)]
              ELSE terr
    /\ UNCHANGED <<kind, ctx, ctxAtCall, dest, terr, bodyKind, transportCalls, closes>>
    /\ UNCHANGED <<authVars, pageVars, raceVars>>

\* The error of Do's decode step, lines 333-345.
DecodeErr(d, body) ==
    CASE d = "nil"    -> NilErr
      [] d = "writer" -> IF body = "broken" THEN ErrOf("read") ELSE NilErr
      [] d = "typed"  ->
            CASE body = "empty"   -> NilErr            \* io.EOF, ignored
              [] body = "json"    -> NilErr
              [] body = "garbage" -> ErrOf("json syntax")
              [] body = "broken"  -> ErrOf("read")

\* A decode step that returns a decode error before closing the body.
DecodeLeak ==
    /\ pc = "decode"
    /\ pc' = "returned"
    /\ err' = DecodeErr(dest, bodyKind)
    /\ closes' = IF DecodeErr(dest, bodyKind) # NilErr THEN closes ELSE closes + 1
    /\ UNCHANGED <<kind, ctx, ctxAtCall, dest, terr, bodyKind, resp, transportCalls>>
    /\ UNCHANGED <<authVars, pageVars, raceVars>>

\* Do's decode step and its deferred resp.Body.Close, lines 331-346.
Decode ==
    /\ pc = "decode"
    /\ pc' = "returned"
    /\ err' = DecodeErr(dest, bodyKind)
    /\ closes' = closes + 1
    /\ UNCHANGED <<kind, ctx, ctxAtCall, dest, terr, bodyKind, resp, transportCalls>>
    /\ UNCHANGED <<authVars, pageVars, raceVars>>

\* The caller has the results; it may call again.
Return ==
    /\ pc = "returned"
    /\ pc' = "idle"
    /\ kind' = "none"
    /\ ctx' = "nil"
    /\ ctxAtCall' = "nil"
    /\ dest' = "nil"
    /\ terr' = ErrOf("none")
    /\ bodyKind' = "empty"
    /\ resp' = NilResp
    /\ err' = NilErr
    /\ transportCalls' = 0
    /\ closes' = 0
    /\ UNCHANGED <<authVars, pageVars, raceVars>>

-----------------------------------------------------------------------------
(* NewRequest and SetBasicAuth as goroutines: each access to the shared     *)
(* field c.BasicAuth is a step of its own. The Go memory model makes an     *)
(* unsynchronized read of the pointer return a value some store wrote; the  *)
(* interleaving of the steps gives every such outcome.                      *)

Builders == {"b1", "b2"}

RaceIdle ==
    /\ gpc = [b \in Builders |-> "idle"]
    /\ guser = [b \in Builders |-> ""]
    /\ greq = [b \in Builders |-> NilReq]
    /\ gstart = [b \in Builders |-> NilAuth]
    /\ gdirty = [b \in Builders |-> FALSE]
    /\ spc = "idle"
    /\ sarg = NilAuth
    /\ everSet = {}
    /\ nsets = 0

\* NewRequest up to line 171: nothing of it reads c.BasicAuth.
BStart(b) ==
    /\ gpc[b] = "idle"
    /\ gpc' = [gpc EXCEPT ![b] = "check"]
    /\ greq' = [greq EXCEPT ![b] =
                  NewRequest(BaseURL, UserAgent, NilAuth, "GET",
                             <<"admin", "/", "users">>, "nil", <<>>).req]
    /\ guser' = [guser EXCEPT ![b] = ""]
    /\ gstart' = [gstart EXCEPT ![b] = BasicAuth]
    /\ gdirty' = [gdirty EXCEPT ![b] = FALSE]
    /\ UNCHANGED <<spc, sarg, everSet, nsets>>
    /\ UNCHANGED <<authVars, pageVars, callVars>>

\* A nil check that fills the field in when it is nil: a builder that writes.
BCheckLazyInit(b) ==
    /\ gpc[b] = "check"
    /\ gpc' = [gpc EXCEPT ![b] = "user"]
    /\ BasicAuth' = IF BasicAuth.set THEN BasicAuth
                    ELSE [set |-> TRUE, username |-> "", password |-> ""]
    /\ UNCHANGED <<guser, greq, gstart, gdirty, spc, sarg, everSet, nsets>>
    /\ UNCHANGED <<BaseURL, UserAgent, lastSet, reqs, built>>
    /\ UNCHANGED <<pageVars, callVars>>

\* Line 173: the read of c.BasicAuth for the nil check.
BCheck(b) ==
    /\ gpc[b] = "check"
    /\ gpc' = [gpc EXCEPT ![b] = IF BasicAuth.set THEN "user" ELSE "done"]
    /\ UNCHANGED <<guser, greq, gstart, gdirty, spc, sarg, everSet, nsets>>
    /\ UNCHANGED <<authVars, pageVars, callVars>>

\* Line 174, first argument: the read of c.BasicAuth.username.
BUser(b) ==
    /\ gpc[b] = "user"
    /\ guser' = [guser EXCEPT ![b] = BasicAuth.username]
    /\ gpc' = [gpc EXCEPT ![b] = "pass"]
    /\ UNCHANGED <<greq, gstart, gdirty, spc, sarg, everSet, nsets>>
    /\ UNCHANGED <<authVars, pageVars, callVars>>

\* Line 174, second argument: the read of c.BasicAuth.password, and the call
\* of req.SetBasicAuth; NewRequest returns (no options are passed).
BPass(b) ==
    /\ gpc[b] = "pass"
    /\ greq' = [greq EXCEPT ![b] = ReqSetBasicAuth(@, guser[b], BasicAuth.password)]
    /\ gpc' = [gpc EXCEPT ![b] = "done"]
    /\ UNCHANGED <<guser, gstart, gdirty, spc, sarg, everSet, nsets>>
    /\ UNCHANGED <<authVars, pageVars, callVars>>

\* The goroutine takes its request and may build another.
BReturn(b) ==
    /\ gpc[b] = "done"
    /\ gpc' = [gpc EXCEPT ![b] = "idle"]
    /\ guser' = [guser EXCEPT ![b] = ""]
    /\ greq' = [greq EXCEPT ![b] = NilReq]
    /\ gstart' = [gstart EXCEPT ![b] = NilAuth]
    /\ gdirty' = [gdirty EXCEPT ![b] = FALSE]
    /\ UNCHANGED <<spc, sarg, everSet, nsets>>
    /\ UNCHANGED <<authVars, pageVars, callVars>>

\* SetBasicAuth, line 350: the new BasicAuth value, local to the call.
SStart(u, p) ==
    /\ spc = "idle"
    /\ nsets < MaxSets
    /\ nsets' = nsets + 1
    /\ sarg' = SetBasicAuth(BasicAuth, u, p)
    /\ everSet' = everSet \cup {<<u, p>>}
    /\ spc' = "store"
    /\ UNCHANGED <<gpc, guser, greq, gstart, gdirty>>
    /\ UNCHANGED <<authVars, pageVars, callVars>>

\* SetBasicAuth, line 351: the store to c.BasicAuth. No lock is taken, so
\* the store may fall between any two steps of a NewRequest in progress.
SStore ==
    /\ spc = "store"
    /\ BasicAuth' = sarg
    /\ lastSet' = sarg
    /\ gdirty' = [b \in Builders |-> gdirty[b] \/ gpc[b] \in {"check", "user", "pass"}]
    /\ spc' = "idle"
    /\ UNCHANGED <<gpc, guser, greq, gstart, sarg, everSet, nsets>>
    /\ UNCHANGED <<BaseURL, UserAgent, reqs, built>>
    /\ UNCHANGED <<pageVars, callVars>>

\* The client of NewClient(nil, ""), no credentials set, no request built.
AuthIdle ==
    /\ BaseURL = NewClient([host |-> "", path |-> <<>>]).BaseURL
    /\ UserAgent = NewClient([host |-> "", path |-> <<>>]).UserAgent
    /\ BasicAuth = NewClient([host |-> "", path |-> <<>>]).BasicAuth
    /\ lastSet = NilAuth
    /\ reqs = <<>>
    /\ built = <<>>

-----------------------------------------------------------------------------
(* SpecAuth: one caller using SetBasicAuth and NewRequest.                 *)

InitAuth ==
    /\ \E b \in BaseURLs : BaseURL = NewClient(b).BaseURL
    /\ UserAgent \in UserAgents
    /\ BasicAuth = NilAuth
    /\ lastSet = NilAuth
    /\ reqs = <<>>
    /\ built = <<>>
    /\ PageIdle
    /\ CallIdle
    /\ RaceIdle

SetBasicAuthCall(u, p) ==
    /\ pc = "idle"
    /\ BasicAuth' = SetBasicAuth(BasicAuth, u, p)
    /\ lastSet' = [set |-> TRUE, username |-> u, password |-> p]
    /\ UNCHANGED <<BaseURL, UserAgent, reqs, built>>
    /\ UNCHANGED <<pageVars, callVars, raceVars>>

NewRequestCall(method, urlStr, body, opts) ==
    /\ pc = "idle"
    /\ Len(reqs) < MaxReqs
    /\ LET res == NewRequest(BaseURL, UserAgent, BasicAuth, method, urlStr, body, opts)
       IN /\ res.err = ""
          /\ reqs' = Append(reqs, res.req)
          /\ built' = Append(built, [cred |-> lastSet, opts |-> opts])
    /\ UNCHANGED <<BasicAuth, BaseURL, UserAgent, lastSet>>
    /\ UNCHANGED <<pageVars, callVars, raceVars>>

NextAuth ==
    \/ \E u \in Users, p \in Pwds : SetBasicAuthCall(u, p)
    \/ \E m \in Methods, ref \in Refs, b \in Bodies, opts \in OptSeqs :
          NewRequestCall(m, ref, b, opts)

SpecAuth == InitAuth /\ [][NextAuth]_vars

-----------------------------------------------------------------------------
(* SpecPage: newResponse populating one Response from a Link header, one   *)
(* entry of the header per step.                                           *)

InitPage ==
    /\ AuthIdle
    /\ PageIdle
    /\ CallIdle
    /\ RaceIdle

\* The style the server used for an entry: "cursor" when its href carries a
\* non-empty cursor parameter, "offset" when it carries none but one of page,
\* since, before and after, "none" for an entry that is skipped.
EntryStyle(e) ==
    IF Len(e.rels) = 0 \/ e.form # "ok" THEN "none"
    ELSE IF e.q.cursor # "" THEN "cursor"
    ELSE IF e.q.page # <<>> \/ e.q.since # <<>> \/ e.q.before # "" \/ e.q.after # ""
    THEN "offset"
    ELSE "none"

\* One iteration of the loop at line 227.
ProcessLink(e) ==
    /\ pgState = "parsing"
    /\ pgN < MaxLinks
    /\ pg' = ProcessEntry(pg, e)
    /\ pgPrev' = pg
    /\ pgEntry' = e
    /\ pgN' = pgN + 1
    /\ pgStyles' = pgStyles \cup {EntryStyle(e)}
    /\ UNCHANGED pgState
    /\ UNCHANGED <<authVars, callVars, raceVars>>

\* The loop ends (at once when there is no Link header); newResponse returns.
PageDone ==
    /\ pgState = "parsing"
    /\ pgState' = "done"
    /\ UNCHANGED <<pg, pgPrev, pgEntry, pgN, pgStyles>>
    /\ UNCHANGED <<authVars, callVars, raceVars>>

NextPageStep ==
    \/ \E e \in LinkEntries : ProcessLink(e)
    \/ PageDone

SpecPage == InitPage /\ [][NextPageStep]_vars

-----------------------------------------------------------------------------
(* Spec: one caller calling BareDo, Do and Users.List, each call step by   *)
(* step, the context cancelled at any moment of a call.                    *)

Init ==
    /\ \E b \in BaseURLs : BaseURL = NewClient(b).BaseURL
    /\ UserAgent = NewClient(defaultBaseURL).UserAgent
    /\ BasicAuth = NewClient(defaultBaseURL).BasicAuth
    /\ lastSet = NilAuth
    /\ reqs = <<>>
    /\ built = <<>>
    /\ PageIdle
    /\ CallIdle
    /\ RaceIdle

Next ==
    \/ \E c \in Contexts : BareDoCall(c)
    \/ \E c \in Contexts, d \in Dests : DoCall(c, d)
    \/ \E c \in Contexts : ListCall(c)
    \/ \E how \in {"canceled", "deadline"} : Cancel(how)
    \/ \E e \in TransportErrs : TransportFail(e)
    \/ \E links \in LinkHeaders, body \in BodyKinds : TransportOk(links, body)
    \/ BareDoFailed
    \/ Decode
    \/ Return

Spec == Init /\ [][Next]_vars

-----------------------------------------------------------------------------
(* SpecRace: two goroutines building requests and one setting credentials, *)
(* on one Client, with no synchronization between them.                    *)

InitRace ==
    /\ AuthIdle
    /\ PageIdle
    /\ CallIdle
    /\ RaceIdle

NextRace ==
    \/ \E b \in Builders : BStart(b)
    \/ \E b \in Builders : BCheck(b)
    \/ \E b \in Builders : BUser(b)
    \/ \E b \in Builders : BPass(b)
    \/ \E b \in Builders : BReturn(b)
    \/ \E u \in Users, p \in Pwds : SStart(u, p)
    \/ SStore

SpecRace == InitRace /\ [][NextRace]_vars

-----------------------------------------------------------------------------
(* Claims about request building, under SpecAuth and SpecRace.             *)

\* The Authorization header NewRequest gives a request when the credential
\* pair is cred: one Basic value, or none for the nil pair.
AuthorizationFor(cred) ==
    IF cred.set THEN <<BasicAuthValue(cred.username, cred.password)>> ELSE <<>>

C9_BuildersOnlyRead ==
    /\ BasicAuth = lastSet
    /\ \A b \in Builders :
          (gpc[b] = "done" /\ ~gdirty[b])
              => greq[b].header["Authorization"] = AuthorizationFor(gstart[b])

\* C9's case: a SetBasicAuth store fell between a NewRequest call's read of
\* the username and its read of the password: the request carries the
\* username of one pair and the password of another, a pair SetBasicAuth was
\* never called with.
C9_Witness ==
    \E b \in Builders :
        /\ gpc[b] = "done" /\ gdirty[b]
        /\ greq[b].header["Authorization"] = <<BasicAuthValue("u1", "p2")>>
        /\ <<"u1", "p2">> \notin everSet

-----------------------------------------------------------------------------
(* Claims about BareDo, Do and Users.List, under Spec.                     *)

\* The call got as far as BareDo (Users.List returns before it when
\* NewRequest fails).
EnteredBareDo ==
    \/ kind \in {"BareDo", "Do"}
    \/ kind = "List" /\ HasSuffix(BaseURL.path, "/")

\* The call's round trip failed.
TransportFailed == terr.kind # "none"

\* C1: when the transport call fails and the context is done by the time
\* BareDo looks at it, the call returns the context's error and a nil
\* response, for BareDo, Do and Users.List alike; so does Users.List called
\* with a context that was cancelled before the call.
C1_ContextErrorPreferred ==
    /\ (pc = "returned" /\ TransportFailed /\ CtxDone(ctx))
          => (err = CtxErr(ctx) /\ resp.isNil)
    /\ (pc = "returned" /\ kind = "List" /\ TransportFailed /\ CtxDone(ctxAtCall))
          => (err = CtxErr(ctxAtCall) /\ resp.isNil)

\* C1's case: Users.List called with a cancelled context, the transport
\* failing with a *url.Error, has returned the cancellation error.
C1_Witness ==
    /\ pc = "returned" /\ kind = "List" /\ ctxAtCall = "canceled"
    /\ terr.kind = "url.Error" /\ terr.parses
    /\ err = ErrOf("context canceled") /\ resp.isNil

\* The values a query gives client_secret hold no secret: each is the marker
\* (or was empty to begin with).
NoSecretIn(query) ==
    \A i \in 1..Len(ValuesFor(query, "client_secret")) :
        ValuesFor(query, "client_secret")[i] \in {"REDACTED", ""}

HasSecret(query) ==
    \E i \in 1..Len(ValuesFor(query, "client_secret")) :
        ValuesFor(query, "client_secret")[i] # ""

\* C2: a transport error BareDo returns whose URL carries a client_secret
\* parameter surfaces with every client_secret value replaced by REDACTED, and
\* with every other parameter's values, in their order, and the rest of the
\* URL as in the original. (Read in the claim's favour: a client_secret value
\* that was empty may stay empty, and parameters may change places as long
\* as each keeps its values in order.)
C2_SecretRedacted ==
    (pc = "returned" /\ err.kind = "url.Error" /\ terr.kind = "url.Error" /\ terr.parses
       /\ HasSecret(terr.url.query))
        => /\ NoSecretIn(err.url.query)
           /\ \A k \in QKeys \ {"client_secret"} :
                 ValuesFor(err.url.query, k) = ValuesFor(terr.url.query, k)
           /\ err.url.rest = terr.url.rest

\* C4: a call of BareDo or Do invokes the transport at most once: not at all
\* when the context is nil, and then it returns the missing-context error and
\* a nil response; exactly once otherwise, also when the transport fails.
C4_OneTransportCall ==
    /\ transportCalls <= 1
    /\ (pc # "idle" /\ EnteredBareDo /\ ctxAtCall = "nil")
          => (transportCalls = 0 /\ pc = "returned" /\ err = errNonNilContext /\ resp.isNil)
    /\ (pc # "idle" /\ EnteredBareDo /\ ctxAtCall # "nil") => transportCalls = 1

\* C4's case: a Do call whose one transport call failed has returned the
\* transport's error, the context still live.
C4_Witness ==
    /\ pc = "returned" /\ kind = "Do" /\ ctx = "live"
    /\ TransportFailed /\ err.kind = "transport"
    /\ transportCalls = 1

\* C5: when the round trip of a Do call succeeds, the response body is closed
\* exactly once by the time Do returns, whatever the destination and however
\* the copy or the decoding ends; it is not closed before the decode step.
C5_BodyClosedOnce ==
    /\ closes <= 1
    /\ (pc = "returned" /\ kind \in {"Do", "List"} /\ ~resp.isNil) => closes = 1
    /\ pc = "decode" => closes = 0

\* C5's case: a Do call with a typed destination whose body does not decode
\* has returned the decode error with the body closed.
C5_Witness ==
    /\ pc = "returned" /\ kind = "Do" /\ dest = "typed" /\ bodyKind = "garbage"
    /\ err = ErrOf("json syntax") /\ ~resp.isNil
    /\ closes = 1

-----------------------------------------------------------------------------
(* Claims about the pagination parser, under SpecPage.                     *)

OffsetFieldsOf(r) ==
    <<r.NextPage, r.PrevPage, r.FirstPage, r.LastPage, r.NextPageToken, r.Before, r.After>>

OffsetPopulated(r) == OffsetFieldsOf(r) # OffsetFieldsOf(ZeroPage)
CursorPopulated(r) == r.Cursor # ""

HasRel(e, rel) == \E i \in 1..Len(e.rels) : e.rels[i] = rel

\* The page value of an entry: page, or since when page is absent.
PageValueOf(e) == IF e.q.page # <<>> THEN e.q.page ELSE e.q.since

\* An entry has just been processed, and it was well formed.
ProcessedOk == pgN > 0 /\ pgEntry.form = "ok" /\ Len(pgEntry.rels) > 0

\* C6: processing a well-formed entry whose href carries a non-empty cursor parameter
\* and whose relation is next sets Cursor to that value and leaves NextPage,
\* PrevPage, FirstPage, LastPage, NextPageToken, Before and After as they
\* were, whatever page, since, before and after parameters the href carries.
C6_CursorNextFrame ==
    (ProcessedOk /\ pgEntry.q.cursor # "" /\ HasRel(pgEntry, "next"))
        => /\ pg.Cursor = pgEntry.q.cursor
           /\ OffsetFieldsOf(pg) = OffsetFieldsOf(pgPrev)

\* C6's case: a cursor entry with relation next that also carries page and
\* before parameters, processed after an entry that set offset-style fields.
C6_Witness ==
    /\ ProcessedOk /\ pgEntry.q.cursor # "" /\ HasRel(pgEntry, "next")
    /\ pgEntry.q.page = <<"2">> /\ pgEntry.q.before # ""
    /\ pgPrev.NextPage = MaxInt /\ pgPrev.NextPageToken # <<>>
    /\ pg.Cursor = "c1"

\* C7 as stated: every Response built has exactly one of the two styles
\* populated, the offset-style fields or Cursor, never both and never neither.
C7_ExactlyOneStyle ==
    pgState = "done" => (OffsetPopulated(pg) # CursorPopulated(pg))

\* C7 as amended: a style is populated only if an entry of the Link header
\* used it: Cursor only if an entry carried a non-empty cursor parameter, an
\* offset-style field only if an entry without one carried page, since, before
\* or after. With no Link header neither style is populated.
C7_OnlyStylesTheServerUsed ==
    pgState = "done" =>
        /\ CursorPopulated(pg) => "cursor" \in pgStyles
        /\ OffsetPopulated(pg) => "offset" \in pgStyles

\* C7's case: a header of cursor-style entries only, carrying page parameters
\* too, has populated Cursor and no offset-style field.
C7_Witness ==
    /\ pgState = "done" /\ pgN >= 2 /\ pgStyles = {"cursor"}
    /\ pgEntry.q.page # <<>> /\ pgEntry.rels = <<"prev", "next">>
    /\ CursorPopulated(pg) /\ ~OffsetPopulated(pg)

C10_CursorPrevIsOffset ==
    (ProcessedOk /\ pgEntry.q.cursor # "" /\ pgEntry.rels = <<"prev">>)
        => /\ pg.PrevPage = Atoi(PageValueOf(pgEntry)).n
           /\ pg.Before = pgEntry.q.before

\* C10 as amended: an entry is diverted to the cursor-style step whenever its
\* href carries a non-empty cursor parameter, whatever its relation; with a
\* relation other than next it records nothing. Only an entry without a
\* cursor parameter has its page and before recorded for relation prev.
C10_CursorAlwaysDiverts ==
    /\ (ProcessedOk /\ pgEntry.q.cursor # "" /\ ~HasRel(pgEntry, "next"))
          => pg = pgPrev
    /\ (ProcessedOk /\ pgEntry.q.cursor = "" /\ pgEntry.rels = <<"prev">>
          /\ EntryStyle(pgEntry) = "offset")
          => /\ pg.PrevPage = Atoi(PageValueOf(pgEntry)).n
             /\ pg.Before = pgEntry.q.before

\* C10's case: a cursor entry with relation prev that carries page and before
\* parameters, and PrevPage and Before still at their zero values.
C10_Witness ==
    /\ ProcessedOk /\ pgEntry.q.cursor = "c1" /\ pgEntry.rels = <<"prev">>
    /\ pgEntry.q.page = <<"2">> /\ pgEntry.q.before = "b1"
    /\ pg.PrevPage = 0 /\ pg.Before = ""

=============================================================================
